---- MODULE Spec2Model ----
(***************************************************************************)
(* State-machine model of the operation lifecycle of                       *)
(*   - LegendaryGame          (electron/legendary/games.ts)                *)
(*   - the tool manager IPC   (src/backend/toolmanager/ipc_handler.ts)     *)
(*   - the ToolItem component (src/frontend/screens/ToolManager/...)       *)
(* Every JavaScript handler runs to its next await without interruption;   *)
(* each action below is one such run-to-completion segment.                *)
(***************************************************************************)
EXTENDS Integers, Sequences, FiniteSets, TLC

VARIABLES
    status,          \* LegendaryGame.state.status, per appName
    installed,       \* LegendaryLibrary install state, per appName
    installPath,     \* LegendaryLibrary persisted install path, per appName
    calls,           \* the LegendaryGame method invocations made so far
    progressHandler, \* the call whose 'requestUpdateProgress' handler is registered, 0 if none
    platform,        \* process.platform
    abortControllers,\* the abort-controller table, per tool version
    toolCalls,       \* the 'installToolVersion' invocations made so far
    refreshes,       \* the 'refreshToolVersionInfo' invocations made so far
    progress,        \* the InstallProgress object of an update
    isVerifying,     \* the isVerifying flag of that update
    stderrOnce,      \* the pending once('data') listeners of child.stderr, by requested appName
    stdoutOnce,      \* the number of pending once('data') listeners of child.stdout
    raised,          \* a 'data' listener threw
    pending,         \* the part of the tool's progress output not yet emitted by child.stderr
    instances,       \* LegendaryGame.instances: the instance of each appName, 0 if none
    objects,         \* the LegendaryGame objects constructed so far, by their status
    references,      \* the results of the LegendaryGame.get calls made so far
    maxWorkers,      \* the maxWorkers value of the global settings
    built,           \* the command each operation has built for each game
    uiProgress,      \* ToolItem: progress.state of the item of each version
    uiInstalled      \* ToolItem: the isInstalled prop of the item of each version

vars == <<status, installed, installPath, calls, progressHandler, platform,
          abortControllers, toolCalls, refreshes, progress, isVerifying,
          stderrOnce, stdoutOnce, raised, pending, instances, objects,
          references, maxWorkers, built, uiProgress, uiInstalled>>

gameVars == <<status, installed, installPath, calls, progressHandler, platform>>

toolVars == <<abortControllers, toolCalls>>

parserVars == <<progress, isVerifying, stderrOnce, stdoutOnce, raised, pending>>

getVars == <<instances, objects, references>>

cmdVars == <<maxWorkers, built>>

uiVars == <<uiProgress, uiInstalled>>

restVars == <<refreshes, parserVars, getVars, cmdVars, uiVars>>

(***************************************************************************)
(* Bounds of the model.                                                    *)
(***************************************************************************)
MaxCalls == 2

MaxToolCalls == 3

MaxListeners == 2

\* 'refreshToolVersionInfo' invocations in one behaviour
MaxRefresh == 4

\* LegendaryGame.get calls in one behaviour
MaxGets == 5

\* the largest maxWorkers setting
MaxWorkers == 3

Games == {"g1", "g2"}

Versions == {"v1", "v2"}

Dirs == {"d0", "d1"}

ExitCodes == {0, 1}

\* process.platform. On darwin every branch taken is one that linux takes
\* too (not Windows, and no shortcut is written), so linux stands for both.
Platforms == {"linux", "win32"}

isWindows == platform = "win32"

(***************************************************************************)
(* A call record: which method of which game, where its async body stands, *)
(* the state of the subprocess it spawned, and what its promise settled to.*)
(***************************************************************************)
NewCall(g, op, pc, proc) ==
    [game |-> g, op |-> op, pc |-> pc, proc |-> proc, code |-> -1,
     result |-> "none", logPath |-> FALSE, pre |-> installed[g],
     shortcut |-> "none", dest |-> "none", side |-> "none"]

CanCall == Len(calls) < MaxCalls

Running(c) == calls[c].pc = "running" /\ calls[c].proc = "running"

\* child_process exit: the subprocess of call c ends with exit code k
Exited(c, k) == [calls[c] EXCEPT !.proc = "exited", !.code = k]

\* lines 256-265: addDesktopShortcut returns at once off Linux; on Linux its
\* game-info lookup and icon fetch may fail (the call is not awaited)
shortcutOutcomes == IF platform = "linux" THEN {"ok", "failed"} ELSE {"ok"}

\* execAsync (promisified exec): resolves on exit code 0, rejects otherwise
execAsyncResolves(k) == k = 0

(***************************************************************************)
(* LegendaryGame.install                                                   *)
(***************************************************************************)
\* line 321, up to the await of getSettings
install(g) ==
    /\ CanCall
    /\ status' = [status EXCEPT ![g] = "installing"]
    /\ calls' = Append(calls, NewCall(g, "install", "settings", "none"))
    /\ UNCHANGED <<installed, installPath, progressHandler, platform, toolVars, restVars>>

\* lines 323-334: installState(true), then the tool is spawned
installSpawn(c) ==
    /\ calls[c].op = "install" /\ calls[c].pc = "settings"
    /\ installed' = [installed EXCEPT ![calls[c].game] = TRUE]
    /\ calls' = [calls EXCEPT ![c].pc = "running", ![c].proc = "running"]
    /\ UNCHANGED <<status, installPath, progressHandler, platform, toolVars, restVars>>

\* lines 334-338: the tool exited with 0
installThen(c) ==
    /\ calls[c].op = "install" /\ Running(c)
    /\ execAsyncResolves(0)
    /\ status' = [status EXCEPT ![calls[c].game] = "done"]
    /\ \E se \in shortcutOutcomes :
        calls' = [calls EXCEPT ![c] = [Exited(c, 0) EXCEPT !.pc = "returned",
                      !.result = "success", !.shortcut = "add", !.side = se]]
    /\ UNCHANGED <<installed, installPath, progressHandler, platform, toolVars, restVars>>

\* lines 339-341: the tool exited with a non-zero code; errorHandler is awaited
installCatch(c) ==
    /\ calls[c].op = "install" /\ Running(c)
    /\ \E k \in ExitCodes :
        /\ ~execAsyncResolves(k)
        /\ calls' = [calls EXCEPT ![c] = [Exited(c, k) EXCEPT !.pc = "errorHandler"]]
    /\ installed' = [installed EXCEPT ![calls[c].game] = FALSE]
    /\ UNCHANGED <<status, installPath, progressHandler, platform, toolVars, restVars>>

\* lines 341-344: errorHandler({error, logPath}) resolved
installFailed(c) ==
    /\ calls[c].op = "install" /\ calls[c].pc = "errorHandler"
    /\ status' = [status EXCEPT ![calls[c].game] = "done"]
    /\ calls' = [calls EXCEPT ![c].pc = "returned", ![c].result = "failed",
                              ![c].logPath = TRUE]
    /\ UNCHANGED <<installed, installPath, progressHandler, platform, toolVars, restVars>>

(***************************************************************************)
(* LegendaryGame.uninstall                                                 *)
(***************************************************************************)
\* the installed-state is left for the tool's exit to settle
uninstallLateMark(g) ==
    /\ CanCall
    /\ status' = [status EXCEPT ![g] = "uninstalling"]
    /\ calls' = Append(calls, NewCall(g, "uninstall", "running", "running"))
    /\ UNCHANGED <<installed, installPath, progressHandler, platform, toolVars, restVars>>

\* lines 349-353: status, installState(false), then the tool is spawned
uninstall(g) ==
    /\ CanCall
    /\ status' = [status EXCEPT ![g] = "uninstalling"]
    /\ installed' = [installed EXCEPT ![g] = FALSE]
    /\ calls' = Append(calls, NewCall(g, "uninstall", "running", "running"))
    /\ UNCHANGED <<installPath, progressHandler, platform, toolVars, restVars>>

\* lines 353-357: the tool exited with 0
uninstallThen(c) ==
    /\ calls[c].op = "uninstall" /\ Running(c)
    /\ execAsyncResolves(0)
    /\ status' = [status EXCEPT ![calls[c].game] = "done"]
    /\ calls' = [calls EXCEPT ![c] = [Exited(c, 0) EXCEPT !.pc = "returned",
                     !.result = "success", !.shortcut = "remove"]]
    /\ UNCHANGED <<installed, installPath, progressHandler, platform, toolVars, restVars>>

\* line 353: the tool exited with a non-zero code, the awaited promise rejects
uninstallRejects(c) ==
    /\ calls[c].op = "uninstall" /\ Running(c)
    /\ \E k \in ExitCodes :
        /\ ~execAsyncResolves(k)
        /\ calls' = [calls EXCEPT ![c] = [Exited(c, k) EXCEPT !.pc = "returned",
                         !.result = "rejected"]]
    /\ UNCHANGED <<status, installed, installPath, progressHandler, platform, toolVars, restVars>>

(***************************************************************************)
(* LegendaryGame.update                                                    *)
(***************************************************************************)
\* line 188, up to the await of getSettings
update(g) ==
    /\ CanCall
    /\ status' = [status EXCEPT ![g] = "updating"]
    /\ calls' = Append(calls, NewCall(g, "update", "settings", "none"))
    /\ UNCHANGED <<installed, installPath, progressHandler, platform, toolVars, restVars>>

\* lines 190-228, the promise executor: the child is spawned, then
\* ipcMain.handle registers 'requestUpdateProgress'. Electron's ipcMain.handle
\* throws when the channel already has a handler: the executor then throws
\* after the spawn, the promise rejects and no 'exit' listener is attached.
updateSpawn(c) ==
    /\ calls[c].op = "update" /\ calls[c].pc = "settings"
    /\ \/ /\ progressHandler = 0
          /\ progressHandler' = c
          /\ calls' = [calls EXCEPT ![c].pc = "running", ![c].proc = "running"]
       \/ /\ progressHandler # 0
          /\ progressHandler' = progressHandler
          /\ calls' = [calls EXCEPT ![c].pc = "returned", ![c].proc = "running",
                                    ![c].result = "rejected"]
    /\ UNCHANGED <<status, installed, installPath, platform, toolVars, restVars>>

\* lines 224-227: child 'exit', whatever the exit code
updateExit(c) ==
    /\ calls[c].op = "update" /\ Running(c)
    /\ \E k \in ExitCodes :
        calls' = [calls EXCEPT ![c] = [Exited(c, k) EXCEPT !.pc = "returned",
                      !.result = "success"]]
    /\ UNCHANGED <<status, installed, installPath, progressHandler, platform, toolVars, restVars>>

\* the child of an update whose executor threw exits with no listener attached
updateOrphanExit(c) ==
    /\ calls[c].op = "update" /\ calls[c].pc = "returned" /\ calls[c].proc = "running"
    /\ \E k \in ExitCodes : calls' = [calls EXCEPT ![c] = Exited(c, k)]
    /\ UNCHANGED <<status, installed, installPath, progressHandler, platform, toolVars, restVars>>

(***************************************************************************)
(* LegendaryGame.repair                                                    *)
(***************************************************************************)
\* line 367, up to the await of getSettings
repair(g) ==
    /\ CanCall
    /\ status' = [status EXCEPT ![g] = "repairing"]
    /\ calls' = Append(calls, NewCall(g, "repair", "settings", "none"))
    /\ UNCHANGED <<installed, installPath, progressHandler, platform, toolVars, restVars>>

\* a repair that does not wait for the tool: done as soon as it is spawned
repairSpawnNoAwait(c) ==
    /\ calls[c].op = "repair" /\ calls[c].pc = "settings"
    /\ status' = [status EXCEPT ![calls[c].game] = "done"]
    /\ calls' = [calls EXCEPT ![c].pc = "returned", ![c].proc = "running",
                              ![c].result = "success"]
    /\ UNCHANGED <<installed, installPath, progressHandler, platform, toolVars, restVars>>

\* lines 369-377: the tool is spawned
repairSpawn(c) ==
    /\ calls[c].op = "repair" /\ calls[c].pc = "settings"
    /\ calls' = [calls EXCEPT ![c].pc = "running", ![c].proc = "running"]
    /\ UNCHANGED <<status, installed, installPath, progressHandler, platform, toolVars, restVars>>

\* lines 377-380: the tool exited with 0
repairThen(c) ==
    /\ calls[c].op = "repair" /\ Running(c)
    /\ execAsyncResolves(0)
    /\ status' = [status EXCEPT ![calls[c].game] = "done"]
    /\ calls' = [calls EXCEPT ![c] = [Exited(c, 0) EXCEPT !.pc = "returned",
                     !.result = "success"]]
    /\ UNCHANGED <<installed, installPath, progressHandler, platform, toolVars, restVars>>

\* line 377: the tool exited with a non-zero code, the awaited promise rejects
repairRejects(c) ==
    /\ calls[c].op = "repair" /\ Running(c)
    /\ \E k \in ExitCodes :
        /\ ~execAsyncResolves(k)
        /\ calls' = [calls EXCEPT ![c] = [Exited(c, k) EXCEPT !.pc = "returned",
                         !.result = "rejected"]]
    /\ UNCHANGED <<status, installed, installPath, progressHandler, platform, toolVars, restVars>>

(***************************************************************************)
(* LegendaryGame.import                                                    *)
(***************************************************************************)
\* lines 384-386: status, then the tool is spawned
import(g) ==
    /\ CanCall
    /\ status' = [status EXCEPT ![g] = "installing"]
    /\ calls' = Append(calls, NewCall(g, "import", "running", "running"))
    /\ UNCHANGED <<installed, installPath, progressHandler, platform, toolVars, restVars>>

\* lines 386-389: the tool exited with 0
importThen(c) ==
    /\ calls[c].op = "import" /\ Running(c)
    /\ execAsyncResolves(0)
    /\ status' = [status EXCEPT ![calls[c].game] = "done"]
    /\ calls' = [calls EXCEPT ![c] = [Exited(c, 0) EXCEPT !.pc = "returned",
                     !.result = "success"]]
    /\ UNCHANGED <<installed, installPath, progressHandler, platform, toolVars, restVars>>

\* line 386: the tool exited with a non-zero code, the awaited promise rejects
importRejects(c) ==
    /\ calls[c].op = "import" /\ Running(c)
    /\ \E k \in ExitCodes :
        /\ ~execAsyncResolves(k)
        /\ calls' = [calls EXCEPT ![c] = [Exited(c, k) EXCEPT !.pc = "returned",
                         !.result = "rejected"]]
    /\ UNCHANGED <<status, installed, installPath, progressHandler, platform, toolVars, restVars>>

(***************************************************************************)
(* LegendaryGame.moveInstall                                               *)
(***************************************************************************)
\* line 167, up to the await of getGameInfo; d is the parent folder asked for
moveInstall(g, d) ==
    /\ CanCall
    /\ status' = [status EXCEPT ![g] = "moving"]
    /\ calls' = Append(calls, [NewCall(g, "moveInstall", "info", "none")
                                  EXCEPT !.dest = d])
    /\ UNCHANGED <<installed, installPath, progressHandler, platform, toolVars, restVars>>

\* lines 169-171: the mv command is spawned
moveSpawn(c) ==
    /\ calls[c].op = "moveInstall" /\ calls[c].pc = "info"
    /\ calls' = [calls EXCEPT ![c].pc = "running", ![c].proc = "running"]
    /\ UNCHANGED <<status, installed, installPath, progressHandler, platform, toolVars, restVars>>

\* lines 172-178: mv exited with 0: the path record is changed, then the
\* status is reset and the new path returned
moveThen(c) ==
    /\ calls[c].op = "moveInstall" /\ Running(c)
    /\ execAsyncResolves(0)
    /\ installPath' = [installPath EXCEPT ![calls[c].game] = calls[c].dest]
    /\ status' = [status EXCEPT ![calls[c].game] = "done"]
    /\ \E se \in shortcutOutcomes :
        calls' = [calls EXCEPT ![c] = [Exited(c, 0) EXCEPT !.pc = "returned",
                      !.result = "success", !.shortcut = "add", !.side = se]]
    /\ UNCHANGED <<installed, progressHandler, platform, toolVars, restVars>>

\* the path record is written after the await, whatever mv's outcome
moveCatchCommits(c) ==
    /\ calls[c].op = "moveInstall" /\ Running(c)
    /\ \E k \in ExitCodes, se \in shortcutOutcomes :
        /\ ~execAsyncResolves(k)
        /\ calls' = [calls EXCEPT ![c] = [Exited(c, k) EXCEPT !.pc = "returned",
                         !.result = "success", !.shortcut = "add", !.side = se]]
    /\ installPath' = [installPath EXCEPT ![calls[c].game] = calls[c].dest]
    /\ status' = [status EXCEPT ![calls[c].game] = "done"]
    /\ UNCHANGED <<installed, progressHandler, platform, toolVars, restVars>>

\* lines 175-178: mv failed: the error is logged, then the status is reset
\* and the new path returned all the same
moveCatch(c) ==
    /\ calls[c].op = "moveInstall" /\ Running(c)
    /\ \E k \in ExitCodes, se \in shortcutOutcomes :
        /\ ~execAsyncResolves(k)
        /\ calls' = [calls EXCEPT ![c] = [Exited(c, k) EXCEPT !.pc = "returned",
                         !.result = "success", !.shortcut = "add", !.side = se]]
    /\ status' = [status EXCEPT ![calls[c].game] = "done"]
    /\ UNCHANGED <<installed, installPath, progressHandler, platform, toolVars, restVars>>

(***************************************************************************)
(* LegendaryGame.launch                                                    *)
(***************************************************************************)
\* line 413, up to the await of getSettings
launch(g) ==
    /\ CanCall
    /\ status' = [status EXCEPT ![g] = "launching"]
    /\ calls' = Append(calls, NewCall(g, "launch", "settings", "none"))
    /\ UNCHANGED <<installed, installPath, progressHandler, platform, toolVars, restVars>>

\* lines 468-471 (Windows) and 539-541: the launch command is spawned
launchSpawn(c) ==
    /\ calls[c].op = "launch" /\ calls[c].pc = "settings"
    /\ calls' = [calls EXCEPT ![c].pc = "running", ![c].proc = "running"]
    /\ UNCHANGED <<status, installed, installPath, progressHandler, platform, toolVars, restVars>>

\* lines 436-466: discordRPC is enabled and the game-info lookup or the
\* presence update throws: the launch rejects before any command is spawned
launchPresenceFails(c) ==
    /\ calls[c].op = "launch" /\ calls[c].pc = "settings"
    /\ calls' = [calls EXCEPT ![c].pc = "returned", ![c].result = "rejected",
                              ![c].side = "failed"]
    /\ UNCHANGED <<status, installed, installPath, progressHandler, platform, toolVars, restVars>>

\* lines 471-477 (Windows) and 541-551: the launched process exited with 0
launchThen(c) ==
    /\ calls[c].op = "launch" /\ Running(c)
    /\ execAsyncResolves(0)
    /\ status' = IF isWindows THEN status
                 ELSE [status EXCEPT ![calls[c].game] = "playing"]
    /\ calls' = [calls EXCEPT ![c] = [Exited(c, 0) EXCEPT !.pc = "returned",
                     !.result = "success"]]
    /\ UNCHANGED <<installed, installPath, progressHandler, platform, toolVars, restVars>>

\* lines 471 and 541: the launched process exited with a non-zero code
launchRejects(c) ==
    /\ calls[c].op = "launch" /\ Running(c)
    /\ \E k \in ExitCodes :
        /\ ~execAsyncResolves(k)
        /\ calls' = [calls EXCEPT ![c] = [Exited(c, k) EXCEPT !.pc = "returned",
                         !.result = "rejected"]]
    /\ UNCHANGED <<status, installed, installPath, progressHandler, platform, toolVars, restVars>>

(***************************************************************************)
(* LegendaryGame.syncSaves                                                 *)
(***************************************************************************)
\* lines 399-409: the sync-saves command is spawned; the status is not written
syncSaves(g) ==
    /\ CanCall
    /\ calls' = Append(calls, NewCall(g, "syncSaves", "running", "running"))
    /\ UNCHANGED <<status, installed, installPath, progressHandler, platform, toolVars, restVars>>

\* line 409: the tool exited; the awaited promise resolves on 0 and rejects
\* otherwise
syncSavesExit(c) ==
    /\ calls[c].op = "syncSaves" /\ Running(c)
    /\ \E k \in ExitCodes :
        calls' = [calls EXCEPT ![c] = [Exited(c, k) EXCEPT !.pc = "returned",
                      !.result = IF execAsyncResolves(k) THEN "success"
                                 ELSE "rejected"]]
    /\ UNCHANGED <<status, installed, installPath, progressHandler, platform, toolVars, restVars>>

(***************************************************************************)
(* LegendaryGame.stop                                                      *)
(***************************************************************************)
\* what the Windows branch returns once Stop-Process has settled
stopWindowsRethrows(k) == IF execAsyncResolves(k) THEN "success" ELSE "rejected"

\* lines 562-568: Stop-Process resolved (logInfo) or rejected (caught,
\* logError): the call returns normally either way
stopWindowsResult(k) == "success"

\* lines 559-575. On Windows Stop-Process is awaited; elsewhere pkill is
\* spawned and the call returns at once (pkill's exit is only logged). The
\* processes the pattern matches end with a non-zero exit code, which every
\* subprocess of the model may do at any time.
stop(g) ==
    /\ CanCall
    /\ calls' = Append(calls,
                  IF isWindows THEN NewCall(g, "stop", "stopping", "none")
                  ELSE [NewCall(g, "stop", "returned", "none")
                           EXCEPT !.result = "success"])
    /\ UNCHANGED <<status, installed, installPath, progressHandler, platform, toolVars, restVars>>

\* lines 563-568: Stop-Process settled
stopSettles(c) ==
    /\ calls[c].op = "stop" /\ calls[c].pc = "stopping"
    /\ \E k \in ExitCodes :
        calls' = [calls EXCEPT ![c].pc = "returned", ![c].code = k,
                               ![c].result = stopWindowsResult(k)]
    /\ UNCHANGED <<status, installed, installPath, progressHandler, platform, toolVars, restVars>>

(***************************************************************************)
(* The abort-controller table (backend/utils/aborthandler) and the install *)
(* pipeline (backend/toolmanager/utils) that the IPC handler drives.       *)
(***************************************************************************)
\* createAbortController(id) succeeds only when id holds no handle
canRegister(v) == abortControllers[v] = "none"

\* createAbortController(id): the table after the registration
createAbortController(v) == [abortControllers EXCEPT ![v] = "live"]

\* deleteAbortController(id): the table after the removal
deleteAbortController(v) == [abortControllers EXCEPT ![v] = "none"]

\* installToolVersion's results once the pipeline ends without throwing:
\* 'abort' when the signal was aborted, else 'success' or 'error'
pipelineResults(v) ==
    IF abortControllers[v] = "aborted" THEN {"abort"} ELSE {"success", "error"}

\* an installToolVersion invocation is between its registration and its result
InFlight(t) == toolCalls[t].pc \in {"downloading", "unzipping"}

NewToolCall(v, pc, result) ==
    [version |-> v, pc |-> pc, result |-> result, signalled |-> FALSE,
     notified |-> "none"]

(***************************************************************************)
(* ipcMain.handle('installToolVersion')                                    *)
(***************************************************************************)
\* lines 14-26: the arguments are evaluated, createAbortController first,
\* then installToolVersion starts its download phase
installToolVersion(v) ==
    /\ Len(toolCalls) < MaxToolCalls
    /\ \/ /\ canRegister(v)
          /\ abortControllers' = createAbortController(v)
          /\ toolCalls' = Append(toolCalls, NewToolCall(v, "downloading", "none"))
       \/ /\ ~canRegister(v)
          /\ abortControllers' = abortControllers
          /\ toolCalls' = Append(toolCalls, NewToolCall(v, "returned", "rejected"))
    /\ UNCHANGED <<gameVars, restVars>>

\* the pipeline goes from its download phase to its unpack phase
toolUnzip(t) ==
    /\ toolCalls[t].pc = "downloading"
    /\ toolCalls' = [toolCalls EXCEPT ![t].pc = "unzipping"]
    /\ UNCHANGED <<abortControllers, gameVars, restVars>>

\* lines 22-28: installToolVersion resolved; the handle is deleted and the
\* result returned
installToolVersionReturns(t) ==
    /\ InFlight(t)
    /\ \E r \in pipelineResults(toolCalls[t].version) :
        toolCalls' = [toolCalls EXCEPT ![t].pc = "returned", ![t].result = r]
    /\ abortControllers' = deleteAbortController(toolCalls[t].version)
    /\ UNCHANGED <<gameVars, restVars>>

\* line 22: installToolVersion rejected; the await throws and the handler
\* rejects without reaching line 27
installToolVersionRejects(t) ==
    /\ InFlight(t)
    /\ abortControllers[toolCalls[t].version] = "live"
    /\ toolCalls' = [toolCalls EXCEPT ![t].pc = "returned", ![t].result = "rejected"]
    /\ UNCHANGED <<abortControllers, gameVars, restVars>>

\* abort(version): the handle of the version, if any, is signalled
abort(v) ==
    /\ abortControllers[v] = "live"
    /\ abortControllers' = [abortControllers EXCEPT ![v] = "aborted"]
    /\ toolCalls' = [t \in DOMAIN toolCalls |->
                        IF toolCalls[t].version = v /\ InFlight(t)
                        THEN [toolCalls[t] EXCEPT !.signalled = TRUE]
                        ELSE toolCalls[t]]
    /\ UNCHANGED <<gameVars, restVars>>

(***************************************************************************)
(* ToolItem.install                                                        *)
(***************************************************************************)
\* the notifications of the error and the abort response exchanged
notifyBodySwapped(response) ==
    CASE response = "error"   -> "notify.install.canceled"
      [] response = "abort"   -> "notify.install.error"
      [] response = "success" -> "notify.install.finished"
      [] OTHER                -> "none"

\* lines 80-93: the notification shown for a response
notifyBody(response) ==
    CASE response = "error"   -> "notify.install.error"
      [] response = "abort"   -> "notify.install.canceled"
      [] response = "success" -> "notify.install.finished"
      [] OTHER                -> "none"

\* lines 79-94: the .then callback runs on the handler's response
installResponse(t) ==
    /\ toolCalls[t].pc = "returned"
    /\ toolCalls[t].result \in {"success", "error", "abort"}
    /\ toolCalls[t].notified = "none"
    /\ toolCalls' = [toolCalls EXCEPT ![t].notified = notifyBody(toolCalls[t].result)]
    /\ UNCHANGED <<abortControllers, gameVars, restVars>>

(***************************************************************************)
(* ToolItem: the main action and the progress listener                     *)
(***************************************************************************)
States == {"idle", "downloading", "unzipping"}

\* index.tsx line 61
isDownloading(v) == uiProgress[v] = "downloading"

\* line 62
unZipping(v) == uiProgress[v] = "unzipping"

\* lines 36-50: a progress event of the version reaches the item's listener,
\* which stores it. The events come from the install pipeline of a request
\* for the version.
handleProgressOfToolManager(v, st) ==
    /\ \E t \in DOMAIN toolCalls : toolCalls[t].version = v
    /\ uiProgress[v] # st
    /\ uiProgress' = [uiProgress EXCEPT ![v] = st]
    /\ UNCHANGED <<uiInstalled, cmdVars, gameVars, toolVars, refreshes, parserVars, getVars>>

\* lines 141-149: remove() for an installed version; abort(version) while the
\* stored state is downloading or unzipping (no effect without a live
\* handle); else install(), which invokes 'installToolVersion' (lines 64-78)
handleMainActionClick(v) ==
    IF uiInstalled[v]
    THEN UNCHANGED vars
    ELSE IF isDownloading(v) \/ unZipping(v)
         THEN IF abortControllers[v] = "live" THEN abort(v) ELSE UNCHANGED vars
         ELSE installToolVersion(v)

(***************************************************************************)
(* LegendaryGame.update: the 'requestUpdateProgress' handler of one update.*)
(* A text is held as the pieces it is made of, a chunk of stderr as its    *)
(* lines (split('\n')), a line as its fields (split(' ')): a split always  *)
(* yields at least one element, the empty text for an empty input.         *)
(***************************************************************************)
\* the appName of the game being updated (this.appName)
UpdatedApp == "g1"

T(s) == <<s>>

\* the value of an array element that does not exist
Undefined == <<"<undefined>">>

\* the tool's progress output: the percentage line, then the download line
ProgressOutput ==
    <<"[DLManager]", " ", "INFO:", " ", "=", " ", "Progress:", " ", "12.50%",
      " ", "(100/800),", " ", "Running", " ", "for", " ", "00:01:00,", " ",
      "ETA:", " ", "00:07:00", "\n",
      "[DLManager]", " ", "INFO:", " ", " ", "-", " ", "Downloaded:", " ",
      "100.00", " ", "MiB,">>

RECURSIVE splitOn(_, _)
\* text.split(sep)
splitOn(text, sep) ==
    LET idx == {i \in DOMAIN text : text[i] = sep}
    IN  IF idx = {} THEN <<text>>
        ELSE LET k == CHOOSE i \in idx : \A j \in idx : i <= j
             IN  <<SubSeq(text, 1, k - 1)>>
                    \o splitOn(SubSeq(text, k + 1, Len(text)), sep)

\* the lines of a chunk, each as its fields
parseChunk(text) ==
    LET lines == splitOn(text, "\n")
    IN  [l \in DOMAIN lines |-> splitOn(lines[l], " ")]

PercentLine ==
    <<T("[DLManager]"), T("INFO:"), T("="), T("Progress:"), T("12.50%"),
      T("(100/800),"), T("Running"), T("for"), T("00:01:00,"), T("ETA:"),
      T("00:07:00")>>

DownloadLine ==
    <<T("[DLManager]"), T("INFO:"), <<>>, T("-"), T("Downloaded:"),
      T("100.00"), T("MiB,")>>

VerifyLine == <<T("Game"), T("needs"), T("to"), T("be"), T("verified")>>

StderrChunks ==
    { <<PercentLine, DownloadLine>>,
      <<PercentLine>>,
      << <<<<>>>> >>,
      <<VerifyLine>>,
      <<VerifyLine, DownloadLine>>,
      << <<T("a")>>, <<T("b")>> >> }

StdoutChunks ==
    { <<T("Verification"), T("progress:"), T("100/800"), <<"(", "12.5%", ")">> >>,
      <<T("x")>> }

\* arr[i] of JavaScript, i counted from 0
at(arr, i) == IF i + 1 <= Len(arr) THEN arr[i + 1] ELSE Undefined

\* a || '0.00'
orDefault(a) == IF a = Undefined \/ a = <<>> THEN T("0.00") ELSE a

\* `${data}`.includes('Game needs to be verified')
includesVerify(chunk) ==
    \E l \in DOMAIN chunk : \E i \in 1..Len(chunk[l]) :
        /\ i + 4 <= Len(chunk[l])
        /\ SubSeq(chunk[l], i, i + 4) = VerifyLine

\* text.split(p)[0]
beforeFirst(text, p) ==
    LET idx == {i \in DOMAIN text : text[i] = p}
    IN  IF idx = {} THEN text
        ELSE SubSeq(text, 1, (CHOOSE i \in idx : \A j \in idx : i <= j) - 1)

\* text.replace(p, '')
removeFirst(text, p) ==
    LET idx == {i \in DOMAIN text : text[i] = p}
    IN  IF idx = {} THEN text
        ELSE LET k == CHOOSE i \in idx : \A j \in idx : i <= j
             IN  SubSeq(text, 1, k - 1) \o SubSeq(text, k + 1, Len(text))

\* lines 213-214: split('\n')[1].split(' ') throws on a chunk of one line
stderrRaises(chunk) == at(chunk, 1) = Undefined

\* lines 213-217: the snapshot written from the two lines of a chunk
stderrSnapshot(chunk) ==
    LET percentProgress == at(chunk, 0)
        downloadProgress == at(chunk, 1)
    IN  [bytes |-> orDefault(at(downloadProgress, 5)) \o T("MiB"),
         percent |-> at(percentProgress, 4),
         eta |-> at(percentProgress, 10)]

\* line 208: split(' ')[3].split(')') throws on a chunk of fewer than 4 fields
stdoutRaises(chunk) == at(chunk, 3) = Undefined

\* lines 207-209: the snapshot written by the verification listener
stdoutSnapshot(chunk) ==
    [bytes |-> (IF at(chunk, 2) = Undefined THEN T("undefined") ELSE at(chunk, 2))
                  \o T("MiB"),
     percent |-> removeFirst(beforeFirst(at(chunk, 3), ")"), "("),
     eta |-> T("verifying")]

\* the listeners of stderrOnce that were registered for the updated game
Matching(listeners) == {i \in DOMAIN listeners : listeners[i] = UpdatedApp}

\* lines 201-223: the handler adds a once('data') listener to child.stderr
requestUpdateProgress(appName) ==
    /\ Len(stderrOnce) < MaxListeners
    /\ stderrOnce' = Append(stderrOnce, appName)
    /\ UNCHANGED <<progress, isVerifying, stdoutOnce, raised, pending>>
    /\ UNCHANGED <<gameVars, toolVars, refreshes, getVars, cmdVars, uiVars>>

\* lines 202-220: the pending listeners of child.stderr run on a chunk, in
\* the order of their registration; the first one that throws ends the emit
\* and leaves the later ones registered.
stderrListeners(chunk) ==
    /\ stderrOnce # <<>>
    /\ isVerifying' = includesVerify(chunk)
    /\ LET m == Matching(stderrOnce)
           first == CHOOSE i \in m : \A j \in m : i <= j
           thrown == m # {} /\ stderrRaises(chunk)
           ran == IF thrown THEN 1 ELSE Cardinality(m)
       IN  /\ stdoutOnce + ran <= MaxListeners
           /\ stdoutOnce' = IF includesVerify(chunk) THEN stdoutOnce + ran
                            ELSE stdoutOnce
           /\ stderrOnce' = IF thrown
                            THEN SubSeq(stderrOnce, first + 1, Len(stderrOnce))
                            ELSE <<>>
           /\ raised' = (raised \/ thrown)
           /\ progress' = IF m # {} /\ ~thrown THEN stderrSnapshot(chunk)
                          ELSE progress
    /\ UNCHANGED <<gameVars, toolVars, refreshes, getVars, cmdVars, uiVars>>

\* child.stderr emits 'data' with some chunk
stderrData(chunk) ==
    /\ stderrListeners(chunk)
    /\ pending' = pending

\* child.stderr emits the next k items of the tool's progress output as one
\* 'data' chunk, to a listener registered for the updated game
stderrFeed(k) ==
    /\ Matching(stderrOnce) # {}
    /\ stderrListeners(parseChunk(SubSeq(pending, 1, k)))
    /\ pending' = SubSeq(pending, k + 1, Len(pending))

\* lines 206-211: child.stdout emits 'data' to the verification listeners
stdoutData(chunk) ==
    /\ stdoutOnce > 0
    /\ IF stdoutRaises(chunk)
       THEN /\ stdoutOnce' = stdoutOnce - 1
            /\ raised' = TRUE
            /\ progress' = progress
       ELSE /\ stdoutOnce' = 0
            /\ raised' = raised
            /\ progress' = stdoutSnapshot(chunk)
    /\ UNCHANGED <<isVerifying, stderrOnce, pending>>
    /\ UNCHANGED <<gameVars, toolVars, refreshes, getVars, cmdVars, uiVars>>

(***************************************************************************)
(* The 'refreshToolVersionInfo' handler                                    *)
(***************************************************************************)
\* the handler with no try/catch: a failure of updateToolVersionInfos reaches
\* the caller
refreshResponseUncaught(failed) == IF failed THEN "rejected" ELSE "void"

\* ipc_handler.ts lines 32-38: both the try and the catch branch end in a bare
\* return
refreshResponse(failed) == "void"

\* line 31: the handler is invoked and awaits updateToolVersionInfos
refreshToolVersionInfo ==
    /\ Len(refreshes) < MaxRefresh
    /\ refreshes' = Append(refreshes, [pc |-> "updating", failed |-> FALSE,
                                       response |-> "none", logged |-> FALSE])
    /\ UNCHANGED <<gameVars, toolVars, parserVars, getVars, cmdVars, uiVars>>

\* lines 33-38: updateToolVersionInfos resolved, or threw and the error was
\* logged
refreshSettles(r) ==
    /\ refreshes[r].pc = "updating"
    /\ \E failed \in BOOLEAN :
        refreshes' = [refreshes EXCEPT ![r] =
                        [pc |-> "returned", failed |-> failed,
                         response |-> refreshResponse(failed),
                         logged |-> failed]]
    /\ UNCHANGED <<gameVars, toolVars, parserVars, getVars, cmdVars, uiVars>>

(***************************************************************************)
(* LegendaryGame.get and the instance table                                *)
(***************************************************************************)
GetStatuses == {"done", "moving"}

\* a get that constructs whether or not the table has an entry
alwaysConstructs(appName) == TRUE

\* games.ts line 49: the table has no instance for appName
isMissing(appName) == instances[appName] = 0

\* lines 48-53: construct and store an instance only if there is none, then
\* return the stored one. The constructor (39-46) sets status 'done'.
get(appName) ==
    /\ Len(references) < MaxGets
    /\ IF isMissing(appName)
       THEN /\ objects' = Append(objects, [appName |-> appName, status |-> "done"])
            /\ instances' = [instances EXCEPT ![appName] = Len(objects) + 1]
       ELSE UNCHANGED <<objects, instances>>
    /\ references' = Append(references,
                         [appName |-> appName, instance |-> instances'[appName]])
    /\ UNCHANGED <<gameVars, toolVars, refreshes, parserVars, cmdVars, uiVars>>

\* an operation writes this.state.status of the instance a caller holds
\* (e.g. line 167)
writeStatus(r, st) ==
    /\ objects[references[r].instance].status # st
    /\ objects' = [objects EXCEPT ![references[r].instance].status = st]
    /\ UNCHANGED <<instances, references>>
    /\ UNCHANGED <<gameVars, toolVars, refreshes, parserVars, cmdVars, uiVars>>

(***************************************************************************)
(* The commands of install, update and repair                              *)
(***************************************************************************)
CommandOps == {"install", "update", "repair"}

\* a --max-workers flag built whatever the setting
literalWorkers(n) == <<"--max-workers", ToString(n)>>

\* games.ts line 323: maxWorkers === 0 ? '' : `--max-workers ${maxWorkers}`
installWorkers(n) == IF n = 0 THEN <<>> ELSE <<"--max-workers", ToString(n)>>

\* line 190: maxWorkers === 0 ? '' : ` --max-workers ${maxWorkers}`
updateWorkers(n) == IF n = 0 THEN <<>> ELSE <<"--max-workers", ToString(n)>>

\* line 369: maxWorkers ? `--max-workers ${maxWorkers}` : '' (a number is
\* falsy when it is 0)
repairWorkers(n) == IF n # 0 THEN <<"--max-workers", ToString(n)>> ELSE <<>>

\* the words of the command each operation builds (lines 191, 328-330,
\* 371-374)
commandOf(op, appName, n) ==
    CASE op = "install" ->
            <<"legendary", "install", appName, "--base-path", "path">>
               \o installWorkers(n) \o <<"-y", "writeLog">>
      [] op = "update" ->
            <<"update", appName>> \o updateWorkers(n) \o <<"-y">>
      [] op = "repair" ->
            <<"legendary", "repair", appName>>
               \o repairWorkers(n) \o <<"-y", "writeLog">>

\* lines 189-191, 322-330, 368-374: the operation reads the setting and
\* builds its command
buildCommand(g, op) ==
    /\ built[<<g, op>>] = <<>>
    /\ built' = [built EXCEPT ![<<g, op>>] = commandOf(op, g, maxWorkers)]
    /\ UNCHANGED <<maxWorkers, uiVars, gameVars, toolVars, refreshes, parserVars, getVars>>

\* no command has been built
NothingBuilt ==
    /\ maxWorkers = 0
    /\ built = [x \in Games \X CommandOps |-> <<>>]

\* every ToolItem is idle and shows a version that is not installed
ToolItemsIdle ==
    /\ uiProgress = [v \in Versions |-> "idle"]
    /\ uiInstalled = [v \in Versions |-> FALSE]

\* no tool install and no refresh has been requested
ToolsAtRest ==
    /\ abortControllers = [v \in Versions |-> "none"]
    /\ toolCalls = <<>>
    /\ refreshes = <<>>

\* no update is reporting progress
ParserAtRest ==
    /\ progress = [bytes |-> <<"0.00", "MiB">>, eta |-> <<"00:00:00">>,
                   percent |-> <<"0.00%">>]
    /\ isVerifying = FALSE
    /\ stderrOnce = <<>>
    /\ stdoutOnce = 0
    /\ raised = FALSE
    /\ pending = <<>>

\* LegendaryGame.instances is empty
NoInstances ==
    /\ instances = [g \in Games |-> 0]
    /\ objects = <<>>
    /\ references = <<>>

Init ==
    /\ status = [g \in Games |-> "done"]
    /\ installed \in [Games -> BOOLEAN]
    /\ installPath = [g \in Games |-> "d0"]
    /\ calls = <<>>
    /\ progressHandler = 0
    /\ platform \in Platforms
    /\ ToolsAtRest
    /\ ParserAtRest
    /\ NoInstances
    /\ NothingBuilt
    /\ ToolItemsIdle

Next ==
    \/ \E g \in Games : install(g)
    \/ \E c \in DOMAIN calls : installSpawn(c)
    \/ \E c \in DOMAIN calls : installThen(c)
    \/ \E c \in DOMAIN calls : installCatch(c)
    \/ \E c \in DOMAIN calls : installFailed(c)
    \/ \E g \in Games : uninstall(g)
    \/ \E c \in DOMAIN calls : uninstallThen(c)
    \/ \E c \in DOMAIN calls : uninstallRejects(c)
    \/ \E g \in Games : update(g)
    \/ \E c \in DOMAIN calls : updateSpawn(c)
    \/ \E c \in DOMAIN calls : updateExit(c)
    \/ \E c \in DOMAIN calls : updateOrphanExit(c)
    \/ \E g \in Games : repair(g)
    \/ \E c \in DOMAIN calls : repairSpawn(c)
    \/ \E c \in DOMAIN calls : repairThen(c)
    \/ \E c \in DOMAIN calls : repairRejects(c)
    \/ \E g \in Games : import(g)
    \/ \E c \in DOMAIN calls : importThen(c)
    \/ \E c \in DOMAIN calls : importRejects(c)
    \/ \E g \in Games, d \in Dirs : moveInstall(g, d)
    \/ \E c \in DOMAIN calls : moveSpawn(c)
    \/ \E c \in DOMAIN calls : moveThen(c)
    \/ \E c \in DOMAIN calls : moveCatch(c)
    \/ \E g \in Games : launch(g)
    \/ \E c \in DOMAIN calls : launchSpawn(c)
    \/ \E c \in DOMAIN calls : launchThen(c)
    \/ \E c \in DOMAIN calls : launchRejects(c)
    \/ \E c \in DOMAIN calls : launchPresenceFails(c)

Spec == Init /\ [][Next]_vars

\* stop and syncSaves, which write neither the status nor the library
\* records, beside the launches whose processes stop is there to end
PlayNext ==
    \/ \E g \in Games : launch(g)
    \/ \E c \in DOMAIN calls : launchSpawn(c)
    \/ \E c \in DOMAIN calls : launchThen(c)
    \/ \E c \in DOMAIN calls : launchRejects(c)
    \/ \E c \in DOMAIN calls : launchPresenceFails(c)
    \/ \E g \in Games : syncSaves(g)
    \/ \E c \in DOMAIN calls : syncSavesExit(c)
    \/ \E g \in Games : stop(g)
    \/ \E c \in DOMAIN calls : stopSettles(c)

PlaySpec == Init /\ [][PlayNext]_vars

\* the tool manager on its own: the games are at rest
\* no LegendaryGame method has been called
GamesAtRest ==
    /\ status = [g \in Games |-> "done"]
    /\ installed = [g \in Games |-> FALSE]
    /\ installPath = [g \in Games |-> "d0"]
    /\ calls = <<>>
    /\ progressHandler = 0
    /\ platform = "linux"

ToolInit ==
    /\ GamesAtRest
    /\ ToolsAtRest
    /\ ParserAtRest
    /\ NoInstances
    /\ NothingBuilt
    /\ ToolItemsIdle

ToolNext ==
    \/ \E v \in Versions : installToolVersion(v)
    \/ \E t \in DOMAIN toolCalls : toolUnzip(t)
    \/ \E t \in DOMAIN toolCalls : installToolVersionReturns(t)
    \/ \E t \in DOMAIN toolCalls : installToolVersionRejects(t)
    \/ \E v \in Versions : abort(v)
    \/ \E t \in DOMAIN toolCalls : installResponse(t)

ToolSpec == ToolInit /\ [][ToolNext]_vars

\* the progress reporting of one update on its own
ParserInit ==
    /\ GamesAtRest
    /\ ToolsAtRest
    /\ ParserAtRest
    /\ NoInstances
    /\ NothingBuilt
    /\ ToolItemsIdle

ParserNext ==
    \/ \E a \in Games : requestUpdateProgress(a)
    \/ \E chunk \in StderrChunks : stderrData(chunk)
    \/ \E chunk \in StdoutChunks : stdoutData(chunk)

ParserSpec == ParserInit /\ [][ParserNext]_vars

\* the tool's progress output reaching the listeners in chunks
SplitInit ==
    /\ GamesAtRest
    /\ ToolsAtRest
    /\ NoInstances
    /\ NothingBuilt
    /\ ToolItemsIdle
    /\ progress = [bytes |-> <<"0.00", "MiB">>, eta |-> <<"00:00:00">>,
                   percent |-> <<"0.00%">>]
    /\ isVerifying = FALSE
    /\ stderrOnce = <<>>
    /\ stdoutOnce = 0
    /\ raised = FALSE
    /\ pending = ProgressOutput

SplitNext ==
    \/ \E a \in Games : requestUpdateProgress(a)
    \/ \E k \in 1..Len(pending) : stderrFeed(k)

SplitSpec == SplitInit /\ [][SplitNext]_vars

\* the refresh handler on its own
RefreshNext ==
    \/ refreshToolVersionInfo
    \/ \E r \in DOMAIN refreshes : refreshSettles(r)

RefreshSpec == ToolInit /\ [][RefreshNext]_vars

\* the instance table on its own
GetNext ==
    \/ \E appName \in Games : get(appName)
    \/ \E r \in DOMAIN references, st \in GetStatuses : writeStatus(r, st)

GetSpec == ToolInit /\ [][GetNext]_vars

\* the ToolItem of each version, clicked while the handler serves it
UIInit ==
    /\ GamesAtRest
    /\ ToolsAtRest
    /\ ParserAtRest
    /\ NoInstances
    /\ NothingBuilt
    /\ uiProgress = [v \in Versions |-> "idle"]
    /\ uiInstalled \in [Versions -> BOOLEAN]

UINext ==
    \/ \E v \in Versions : handleMainActionClick(v)
    \/ \E v \in Versions, st \in States : handleProgressOfToolManager(v, st)
    \/ \E t \in DOMAIN toolCalls : toolUnzip(t)
    \/ \E t \in DOMAIN toolCalls : installToolVersionReturns(t)
    \/ \E t \in DOMAIN toolCalls : installToolVersionRejects(t)
    \/ \E t \in DOMAIN toolCalls : installResponse(t)

UISpec == UIInit /\ [][UINext]_vars

\* the command construction on its own, for every setting
WorkersInit ==
    /\ GamesAtRest
    /\ ToolsAtRest
    /\ ParserAtRest
    /\ NoInstances
    /\ ToolItemsIdle
    /\ maxWorkers \in 0..MaxWorkers
    /\ built = [x \in Games \X CommandOps |-> <<>>]

WorkersNext == \E g \in Games, op \in CommandOps : buildCommand(g, op)

WorkersSpec == WorkersInit /\ [][WorkersNext]_vars


(***************************************************************************)
(* Properties                                                              *)
(***************************************************************************)
CallsOf(g) == {c \in DOMAIN calls : calls[c].game = g}

\* every call made on g has settled and none of their subprocesses is alive
Quiescent(g) ==
    \A c \in CallsOf(g) : calls[c].pc = "returned" /\ calls[c].proc # "running"

\* the call appended by this step, 0 if the step makes no call
NewCallIndex == IF Len(calls') > Len(calls) THEN Len(calls') ELSE 0

\* C1: for every key, at most one operation is in flight at any instant: no
\* two subprocesses of LegendaryGame operations on one appName, and no two
\* install pipelines of one tool version, are running at once.
C1_AtMostOneInFlight ==
    /\ \A g \in Games :
        Cardinality({c \in CallsOf(g) : calls[c].proc = "running"}) <= 1
    /\ \A v \in Versions :
        Cardinality({t \in DOMAIN toolCalls :
                        toolCalls[t].version = v /\ InFlight(t)}) <= 1

\* C2: an operation call made on a game whose status is not 'done' fails at
\* once with OperationInProgress: it spawns no subprocess and leaves the
\* status, the installed-state and the calls already in flight unchanged.
C2_BusyCallFailsFast ==
    [][\A g \in Games :
         (NewCallIndex # 0 /\ calls'[NewCallIndex].game = g /\ status[g] # "done")
         => /\ calls'[NewCallIndex].result = "OperationInProgress"
            /\ calls'[NewCallIndex].proc = "none"
            /\ status'[g] = status[g]
            /\ installed'[g] = installed[g]
            /\ \A c \in DOMAIN calls : calls'[c] = calls[c]]_vars

C4_StatusReturnsToDone ==
    \A g \in Games :
        (Quiescent(g) /\ \E c \in CallsOf(g) :
                            /\ calls[c].op \in {"update", "uninstall", "repair", "import"}
                            /\ calls[c].proc = "exited")
        => status[g] \notin {"updating", "uninstalling", "repairing", "installing"}

\* C5: after installToolVersion for a version reached any terminal outcome
\* (success, abort, error, or the pipeline rejecting), the version's handle is
\* gone from the abort-controller table: a handle is registered only while an
\* install of that version is in flight.
C5_HandleReleased ==
    \A v \in Versions :
        abortControllers[v] # "none"
        => \E t \in DOMAIN toolCalls : toolCalls[t].version = v /\ InFlight(t)

\* C6: whenever the tool of an install exits 0, the install returns a success
\* result, and at the moment the result is delivered the installed-state is
\* true and the status is 'done'.
C6_InstallSuccess ==
    [][\A c \in DOMAIN calls :
         (calls[c].op = "install" /\ Running(c)
            /\ calls'[c].pc = "returned" /\ calls'[c].code = 0)
         => /\ calls'[c].result = "success"
            /\ installed'[calls[c].game]
            /\ status'[calls[c].game] = "done"]_vars

\* C7: for an install of a game whose installed-state was false and whose
\* tool exits non-zero, the installed-state is false up to and including the
\* delivery of the error result: it is false when the tool exits and after.
C7_FailedInstallNeverInstalled ==
    [][\A c \in DOMAIN calls :
         (calls[c].op = "install" /\ ~calls[c].pre /\ Running(c)
            /\ calls'[c].proc = "exited" /\ calls'[c].code # 0)
         => /\ ~installed[calls[c].game]
            /\ ~installed'[calls[c].game]]_vars

\* C8: an install, update or repair whose tool exited with a non-zero code
\* settles to a Failed result carrying the log path; never to success and
\* never to a raw rejection.
C8_NonZeroExitIsFailed ==
    \A c \in DOMAIN calls :
        (calls[c].op \in {"install", "update", "repair"}
           /\ calls[c].pc = "returned" /\ calls[c].proc = "exited" /\ calls[c].code # 0)
        => calls[c].result = "failed" /\ calls[c].logPath

\* C9: uninstall sets the installed-state to false before its tool runs (in
\* the first state with the uninstall subprocess alive it is false), and the
\* exit of the tool, with any code, leaves the installed-state as it was: a
\* failure performs no rollback.
C9_UninstallMarksFirst ==
    [][\A c \in DOMAIN calls' :
         calls'[c].op = "uninstall"
         => /\ (c \notin DOMAIN calls /\ calls'[c].proc = "running")
                  => ~installed'[calls'[c].game]
            /\ (c \in DOMAIN calls /\ calls[c].proc = "running"
                  /\ calls'[c].proc = "exited")
                  => installed'[calls[c].game] = installed[calls[c].game]
            /\ (c \notin DOMAIN calls) => calls'[c].proc = "running"]_vars

C9_Witness ==
    \E c \in DOMAIN calls :
        /\ calls[c].op = "uninstall"
        /\ calls[c].pre
        /\ calls[c].proc = "exited"
        /\ calls[c].code # 0
        /\ ~installed[calls[c].game]

\* C10: every uninstall whose tool has exited, with a zero or a non-zero
\* code, has triggered removeDesktopShortcut.
C10_UninstallRemovesShortcut ==
    \A c \in DOMAIN calls :
        (calls[c].op = "uninstall" /\ calls[c].pc = "returned"
           /\ calls[c].proc = "exited")
        => calls[c].shortcut = "remove"

\* C11: in moveInstall the persisted install-path record changes only in the
\* step that handles a successful mv (exit code 0) of a moveInstall call on
\* that game, and then to that call's destination; the step that handles a
\* failed mv leaves the record as it was.
C11_MoveCommitsOnSuccessOnly ==
    [][\A g \in Games :
         /\ installPath'[g] # installPath[g]
              => \E c \in CallsOf(g) :
                    /\ calls[c].op = "moveInstall" /\ Running(c)
                    /\ calls'[c].proc = "exited" /\ calls'[c].code = 0
                    /\ installPath'[g] = calls[c].dest
         /\ \A c \in CallsOf(g) :
              (calls[c].op = "moveInstall" /\ Running(c)
                 /\ calls'[c].proc = "exited" /\ calls'[c].code # 0)
              => installPath'[g] = installPath[g]]_vars

C11_Witness ==
    \E c \in DOMAIN calls :
        /\ calls[c].op = "moveInstall"
        /\ calls[c].pc = "returned"
        /\ calls[c].code # 0
        /\ calls[c].dest # installPath[calls[c].game]

\* C12: during launch the status is 'playing' in every state where the
\* launched process is alive, and it is never 'playing' once that process has
\* exited.
C12_PlayingWhileAlive ==
    \A c \in DOMAIN calls :
        calls[c].op = "launch"
        => /\ Running(c) => status[calls[c].game] = "playing"
           /\ calls[c].proc = "exited" => status[calls[c].game] # "playing"

\* C13: progress extraction during update never raises, whatever the chunk:
\* no 'data' listener of the update throws.
C13_ExtractionNeverRaises == ~raised

\* C14: however the progress output (percentage line, then download line) is
\* split into consecutive chunks, once all of it has been fed to the
\* listeners the snapshot is the one the whole output gives as one chunk, and
\* nothing was raised.
C14_ChunkBoundaryInvariance ==
    pending = <<>>
    => /\ ~raised
       /\ progress = stderrSnapshot(parseChunk(ProgressOutput))

\* C15: a failed side effect (shortcut creation, icon fetch, game-info lookup
\* or presence update) never blocks or fails the primary operation: the
\* operation's command was still spawned, and the operation does not reject
\* unless its own command failed.
C15_SideEffectIsolated ==
    \A c \in DOMAIN calls :
        calls[c].side = "failed"
        => /\ calls[c].proc # "none"
           /\ calls[c].code = 0 => calls[c].result = "success"

\* C16: a 'refreshToolVersionInfo' request always completes normally with no
\* value; when updateToolVersionInfos failed the error was logged and the
\* response is still the void one, never a rejection.
C16_RefreshAlwaysVoid ==
    \A r \in DOMAIN refreshes :
        refreshes[r].pc = "returned"
        => /\ refreshes[r].response = "void"
           /\ refreshes[r].failed => refreshes[r].logged

\* a refresh whose updateToolVersionInfos failed has returned, after one that
\* succeeded
C16_Witness ==
    \E r, q \in DOMAIN refreshes :
        /\ refreshes[r].pc = "returned" /\ refreshes[r].failed
        /\ refreshes[q].pc = "returned" /\ ~refreshes[q].failed

\* the appNames get has been called with
Requested == {references[r].appName : r \in DOMAIN references}

\* C18: after any sequence of get calls the table holds exactly one instance
\* per requested appName, every get of one appName returned the same instance
\* (a status written through one reference is read through every other), and
\* no instance was replaced: every instance ever constructed is still the
\* table's entry for its appName.
C18_OneInstancePerAppName ==
    /\ \A a \in Games : (instances[a] # 0) <=> (a \in Requested)
    /\ Len(objects) = Cardinality(Requested)
    /\ \A o \in DOMAIN objects : instances[objects[o].appName] = o
    /\ \A r, q \in DOMAIN references :
          references[r].appName = references[q].appName
          => /\ references[r].instance = references[q].instance
             /\ objects[references[r].instance].status
                   = objects[references[q].instance].status

\* two gets of one appName and a get of another have returned, and a status
\* was written through a reference
C18_Witness ==
    /\ Cardinality(Requested) = 2
    /\ \E r, q \in DOMAIN references :
          /\ r # q
          /\ references[r].appName = references[q].appName
          /\ objects[references[r].instance].status = "moving"

\* the calls a step has added or advanced
Stepped(c) == c \notin DOMAIN calls \/ calls'[c] # calls[c]

\* C17: stop reports success whether or not a process matches and however
\* often it is called: every step of a stop call leaves the game's status and
\* installed state as they were, and a stop call that has returned has
\* returned normally.
C17_StopIdempotent ==
    [][\A c \in DOMAIN calls' :
          (calls'[c].op = "stop" /\ Stepped(c))
          => /\ status' = status
             /\ installed' = installed
             /\ calls'[c].pc = "returned" => calls'[c].result = "success"]_vars

\* stop was called twice in a row on a game with no process, Stop-Process
\* found nothing to stop the first time, and both calls returned normally
C17_Witness ==
    /\ Len(calls) = 2
    /\ calls[1].op = "stop" /\ calls[2].op = "stop"
    /\ calls[1].game = calls[2].game
    /\ calls[1].code = 1
    /\ calls[1].result = "success" /\ calls[2].result = "success"

\* the operations whose end is the status 'done' or, for update, the
\* resolution of the returned promise
TerminalOps == {"install", "uninstall", "repair", "import", "moveInstall", "update"}

\* C19: no operation reaches its terminal state while its subprocess is
\* alive: an install, uninstall, repair, import, moveInstall or update call
\* that has resolved has a subprocess that exited, and a status becomes 'done'
\* only in the step of a call on that game whose subprocess has exited.
C19_TerminalOnlyAfterExit ==
    [][/\ \A c \in DOMAIN calls' :
             (calls'[c].op \in TerminalOps /\ calls'[c].result = "success")
             => calls'[c].proc = "exited"
       /\ \A g \in Games :
             (status[g] # "done" /\ status'[g] = "done")
             => \E c \in DOMAIN calls' :
                   /\ calls'[c].game = g /\ calls'[c].op \in TerminalOps
                   /\ Stepped(c)
                   /\ calls'[c].proc = "exited"]_vars

\* a repair and an update have both resolved after their tools exited, and
\* the repaired game is 'done'
C19_Witness ==
    \E c, u \in DOMAIN calls :
        /\ calls[c].op = "repair" /\ calls[c].result = "success"
        /\ calls[c].proc = "exited" /\ status[calls[c].game] = "done"
        /\ calls[u].op = "update" /\ calls[u].result = "success"
        /\ calls[u].proc = "exited"

\* the status the specification gives to each operation while it is in flight
StatusOf(op) ==
    CASE op = "install" -> "installing"
      [] op = "update" -> "updating"
      [] op = "uninstall" -> "uninstalling"
      [] op = "repair" -> "repairing"
      [] op = "import" -> "importing"
      [] op = "syncSaves" -> "syncingSaves"
      [] op = "moveInstall" -> "moving"

StatusOps == {"install", "update", "uninstall", "repair", "import",
              "syncSaves", "moveInstall"}

\* call c has not returned and no other call on its game is in flight
OnlyInFlight(c) ==
    /\ calls[c].pc # "returned"
    /\ \A d \in DOMAIN calls \ {c} :
          calls[d].game = calls[c].game => calls[d].pc = "returned"

\* C20: while an operation is in flight the game's status is the one that
\* corresponds to the operation (stated for a call that is the only one in
\* flight on its game).
C20_StatusMatchesOperation ==
    \A c \in DOMAIN calls :
        (calls[c].op \in StatusOps /\ OnlyInFlight(c))
        => status[calls[c].game] = StatusOf(calls[c].op)

\* C21: when a chunk recognised as the verification line reaches a listener
\* registered for the updated game, normal extraction is suppressed for it:
\* nothing is raised, and the snapshot is not the one written from the
\* percentage and download field positions of a verification chunk.
C21_VerificationSuppressesExtraction ==
    [][(/\ Len(stderrOnce') < Len(stderrOnce)
        /\ Matching(stderrOnce) # {}
        /\ isVerifying')
       => /\ raised' = raised
          /\ \A chunk \in StderrChunks :
                includesVerify(chunk) => progress' # stderrSnapshot(chunk)]_vars

\* C22: every update call spawns its subprocess, gets its own progress
\* reporting and completes when its own subprocess exits, also beside an
\* update of another game or after an earlier update: no update whose
\* subprocess was spawned is rejected, and one that has returned has a
\* subprocess that exited.
C22_EveryUpdateCompletes ==
    \A c \in DOMAIN calls :
        (calls[c].op = "update" /\ calls[c].proc # "none")
        => /\ calls[c].result # "rejected"
           /\ calls[c].pc = "returned" => calls[c].proc = "exited"

\* the positions of the --max-workers flag in a command
FlagAt(cmd) == {i \in DOMAIN cmd : cmd[i] = "--max-workers"}

\* C23: for install, update and repair and every worker-count setting N, the
\* command built has no --max-workers flag when N is 0 and has the flag
\* once, followed by N, when N is not 0; the three operations agree.
C23_WorkersFlag ==
    \A x \in Games \X CommandOps :
        built[x] # <<>>
        => IF maxWorkers = 0
           THEN FlagAt(built[x]) = {}
           ELSE /\ Cardinality(FlagAt(built[x])) = 1
                /\ \A i \in FlagAt(built[x]) :
                      /\ i < Len(built[x])
                      /\ built[x][i + 1] = ToString(maxWorkers)

\* the three operations have built their commands for one game with the
\* setting 0
C23_Witness ==
    /\ maxWorkers = 0
    /\ \E g \in Games : \A op \in CommandOps : built[<<g, op>>] # <<>>

\* C24: the main action of a ToolItem never issues installToolVersion for a
\* version while an install of that version is in flight: a step that adds
\* an invocation for a version finds no invocation of that version between
\* its request and its response.
C24_NoDoubleInstall ==
    [][\A v \in Versions :
          (/\ Len(toolCalls') = Len(toolCalls) + 1
           /\ toolCalls'[Len(toolCalls')].version = v)
          => ~ \E t \in DOMAIN toolCalls :
                  toolCalls[t].version = v /\ InFlight(t)]_vars

====
